---- MODULE Spec2Model ----
(***************************************************************************)
(* Model of the policy-analysis orchestration core:                        *)
(*   src/src/services/orchestrator.py   run_policy_analysis, _update_status*)
(*                                      _calculate_duration, _send_callback*)
(*   src/services/claude_analyzer.py    analyze_policy, _parse_analysis_json*)
(*   src/src/services/supabase_client.py store_analysis_result             *)
(*   src/webhook.py                     handle_policy_uploaded             *)
(*                                                                         *)
(* Each job is one asyncio task running run_policy_analysis.  A task is    *)
(* cut into steps at its awaits and at its writes to the status store, so  *)
(* every status the code writes is a state of the model.  Tasks interleave *)
(* at step boundaries.                                                     *)
(*                                                                         *)
(* orchestrator.py lines 130-138 and supabase_client.py are mis-indented   *)
(* in the repository; they are read with the indentation their statements  *)
(* call for (STEP 5 inside the try block, the store write under            *)
(* "if policy_id:").                                                       *)
(*                                                                         *)
(* Optional values: None is <<>>, Some(v) is <<v>>.  Texts (error          *)
(* messages, model output) are sequences of tokens.                        *)
(***************************************************************************)
EXTENDS Integers, Sequences, FiniteSets, TLC

\* ------------------------------------------------------------------ bounds
\* number of jobs submitted to the process
NumJobs == 1
\* the clock runs from 0 to MaxClock ticks
MaxClock == 1
\* the longest body of a model output handed to the parser on its own
MaxBodyLen == 3
\* the analysis ids of the store when updates are issued on their own
MaxIds == 2
\* number of jobs run side by side
NumConcurrent == 2

Jobs == 1..NumJobs

\* ------------------------------------------------------------------ values
None == <<>>
Some(v) == <<v>>
Val(o) == o[1]

\* Python truthiness of an optional string: None and "" are false
Truthy(o) == o # None /\ Val(o) # ""

Contains(text, tok) == \E i \in DOMAIN text : text[i] = tok

\* text has sub as a contiguous run of tokens
ContainsText(text, sub) ==
  \E i \in 0..(Len(text) - Len(sub)) :
    \A k \in 1..Len(sub) : text[i + k] = sub[k]

\* the payloads run_policy_analysis is called with: the webhook model_dump
\* (file_url set) and the direct upload (_local_file_path set); every field
\* is read with payload.get, so fields may be absent in any combination.  The
\* webhook payloads are drawn with and without policy_id and callback_url,
\* the payloads with a local path (alone, or with a URL beside it) without
\* either.
Payloads ==
  { p \in [ _local_file_path : {None, Some("temp/policy.pdf")},
            file_url         : {None, Some("https://files.example/policy.pdf")},
            policy_id        : {None, Some("pol_1")},
            callback_url     : {None, Some("https://saas.example/hook")},
            client_name      : {"Acme Corp"} ] :
      p._local_file_path # None => (p.policy_id = None /\ p.callback_url = None) }

\* what extractor.extract_from_file / extract_from_url hands back: the
\* orchestrator reads .success, .error and .text of it
ExtractionResults ==
  { [success |-> TRUE,  text |-> Some("policy text"), error |-> None],
    [success |-> FALSE, text |-> None, error |-> Some(<<"download", "timed", "out">>)] }

\* what generator.generate_report hands back: .success, .error, .report_path
ReportResults ==
  { [success |-> TRUE,  report_path |-> Some("reports/report.pdf"), error |-> None],
    [success |-> FALSE, report_path |-> None, error |-> Some(<<"render", "error">>)] }

\* what supabase_service.store_analysis_result can meet: no client
\* configured, the update raising, the update going through
StoreOutcomes == {"no_client", "raises", "stored"}

\* what the callback endpoint answers: a response code, or an I/O fault
CallbackOutcomes == {"200", "500", "timeout"}

\* ------------------------------------------------- claude_analyzer.py
\* Model output is a sequence of tokens.  "ws" is whitespace, "prose" any
\* run of text that is no JSON, "fence" a triple-backtick fence, "json" the fence tag.  The
\* tokens of KVTokens are one "key": value member each (with its comma):
\*   "a:1"      "a": 1
\*   "es:full"  "executive_summary": {"key_metrics":
\*                 {"overall_maturity_score": 7}, "recommendation": "BIND"}
\*   "es:null"  "executive_summary": null
\* "deep" is a run of opening square brackets longer than the interpreter's
\* recursion limit.
KVTokens == {"a:1", "es:full", "es:null"}

\* decoded values; PyNone is Python's None
JObject(keys) == [kind |-> "object", keys |-> keys, n |-> 0, raw |-> <<>>]
JArray(n) == [kind |-> "array", keys |-> {}, n |-> n, raw |-> <<>>]
JNumber(n) == [kind |-> "number", keys |-> {}, n |-> n, raw |-> <<>>]
PyNone == [kind |-> "None", keys |-> {}, n |-> 0, raw |-> <<>>]

\* bool(value): None, {}, [] and 0 are false
PyTruthy(v) ==
  CASE v.kind = "object" -> v.keys # {}
    [] v.kind = "array"  -> v.n > 0
    [] v.kind = "number" -> v.n # 0
    [] OTHER -> FALSE

\* text without its leading and trailing whitespace
Strip(text) ==
  LET ink == {i \in DOMAIN text : text[i] # "ws"}
  IN IF ink = {} THEN <<>>
     ELSE SubSeq(text, CHOOSE i \in ink : \A k \in ink : i <= k,
                       CHOOSE i \in ink : \A k \in ink : i >= k)

\* json.loads: ok is FALSE where it raises, and raises names the exception:
\* JSONDecodeError on text that is no JSON, RecursionError when the scanner
\* has opened more nested arrays than the recursion limit allows
json_loads(text) ==
  LET s == Strip(text)
      n == Len(s)
  IN IF \E i \in 1..n : s[i] = "deep" /\ \A k \in 1..(i - 1) : s[k] \in {"[", "ws"}
       THEN [ok |-> FALSE, raises |-> "RecursionError", value |-> PyNone]
     ELSE IF n >= 2 /\ s[1] = "{" /\ s[n] = "}"
        /\ \A i \in 2..(n - 1) : s[i] \in KVTokens \cup {"ws"}
       THEN [ok |-> TRUE, raises |-> "", value |-> JObject({s[i] : i \in 2..(n - 1)} \ {"ws"})]
     ELSE IF n >= 2 /\ s[1] = "[" /\ s[n] = "]"
        /\ \A i \in 2..(n - 1) : s[i] \in {"1", "ws"}
       THEN [ok |-> TRUE, raises |-> "", value |-> JArray(Cardinality({i \in 2..(n - 1) : s[i] = "1"}))]
     ELSE IF s = <<"1">> THEN [ok |-> TRUE, raises |-> "", value |-> JNumber(1)]
     ELSE IF s = <<"0">> THEN [ok |-> TRUE, raises |-> "", value |-> JNumber(0)]
     ELSE IF s = <<"null">> THEN [ok |-> TRUE, raises |-> "", value |-> PyNone]
     ELSE [ok |-> FALSE, raises |-> "JSONDecodeError", value |-> PyNone]

\* re.search of the fenced block (an opening fence, an optional json tag,
\* whitespace, the shortest content, whitespace, a closing fence): group(1),
\* or no match
FenceMatch(text) ==
  LET fences == {i \in DOMAIN text : text[i] = "fence"}
  IN IF Cardinality(fences) < 2 THEN [found |-> FALSE, group |-> <<>>]
     ELSE LET open == CHOOSE i \in fences : \A k \in fences : i <= k
              close == CHOOSE i \in fences \ {open} : \A k \in fences \ {open} : i <= k
              from == IF open + 1 < close /\ text[open + 1] = "json"
                        THEN open + 2 ELSE open + 1
          IN [found |-> TRUE, group |-> Strip(SubSeq(text, from, close - 1))]

\* re.search of the first opening brace up to the last closing brace:
\* group(0), or no match
BraceMatch(text) ==
  LET opens == {i \in DOMAIN text : text[i] = "{"}
      first == CHOOSE i \in opens : \A k \in opens : i <= k
      closes == {i \in DOMAIN text : text[i] = "}" /\ i > first}
  IN IF opens = {} \/ closes = {} THEN [found |-> FALSE, group |-> <<>>]
     ELSE [found |-> TRUE,
           group |-> SubSeq(text, first, CHOOSE i \in closes : \A k \in closes : i >= k)]

\* how a call of _parse_analysis_json ends: it returns a value, or an
\* exception leaves it
Return(v) == [raised |-> FALSE, value |-> v]
Raise == [raised |-> TRUE, value |-> PyNone]
Caught(r) == r.raises = "JSONDecodeError"

\* the three attempts in order; each "except json.JSONDecodeError: pass"
\* lets through whatever else json.loads raises
_parse_analysis_json(text) ==
  LET direct == json_loads(text)
      fence == FenceMatch(text)
      fenced == json_loads(fence.group)
      brace == BraceMatch(text)
      braced == json_loads(brace.group)
  IN IF direct.ok THEN Return(direct.value)
     ELSE IF ~Caught(direct) THEN Raise
     ELSE IF fence.found /\ fenced.ok THEN Return(fenced.value)
     ELSE IF fence.found /\ ~Caught(fenced) THEN Raise
     ELSE IF brace.found /\ braced.ok THEN Return(braced.value)
     ELSE IF brace.found /\ ~Caught(braced) THEN Raise
     ELSE Return(PyNone)

\* what client.messages.create does: raise anthropic.APIError, or answer
\* with a text
ApiText(t) == [kind |-> "text", text |-> t]
PipelineTexts ==
  { <<"{", "es:full", "}">>,
    <<"prose", "fence", "json", "ws", "{", "es:full", "}", "ws", "fence">>,
    <<"{", "es:null", "}">>,
    <<"[", "1", "]">>,
    <<"prose">> }
ApiResponses ==
  { [kind |-> "api_error", text |-> <<"overloaded">>] }
  \cup { ApiText(t) : t \in PipelineTexts }

\* settings.ANTHROPIC_API_KEY and the API's answer
AnalyzerEnvs == [api_key : {"", "sk-key"}, response : ApiResponses]

AnalysisFailure(msg) == [success |-> FALSE, analysis_data |-> None, error |-> Some(msg)]
AnalysisSuccess(data) == [success |-> TRUE, analysis_data |-> Some(data), error |-> None]

\* the dict the analyzer returns when no JSON could be recovered
RawAnalysis(text) == [kind |-> "object", keys |-> {"raw_analysis"}, n |-> 0, raw |-> text]

analyze_policy(env) ==
  IF env.api_key = ""
    THEN AnalysisFailure(<<"Anthropic", "API", "key", "not", "configured">>)
  ELSE IF env.response.kind = "api_error"
    THEN AnalysisFailure(<<"API", "error:">> \o env.response.text)
  ELSE LET parse == _parse_analysis_json(env.response.text)
           analysis_data == parse.value
       IN IF parse.raised
            \* caught by "except Exception" of analyze_policy
            THEN AnalysisFailure(<<"maximum", "recursion", "depth", "exceeded">>)
          ELSE IF PyTruthy(analysis_data)
            THEN IF analysis_data.kind = "object"
                   THEN AnalysisSuccess(JObject(analysis_data.keys \cup {"_metadata"}))
                   \* analysis_data["_metadata"] = ... raises on a list or a
                   \* number, and "except Exception" answers with str(e)
                   ELSE AnalysisFailure(<<"TypeError:", analysis_data.kind>>)
            ELSE AnalysisSuccess(RawAnalysis(env.response.text))

\* --------------------------------------------------- orchestrator.py
VARIABLES
  pc,                     \* where each job's task stands
  payload,                \* the payload each job was submitted with
  analysis_status_store,  \* the in-memory status store, keyed by analysis id
  now,                    \* the last reading of datetime.utcnow(), in ticks
  extraction,             \* run_policy_analysis's local of that name, per job
  analysis_result,        \* likewise
  report_result,          \* likewise
  result,                 \* likewise
  invoked,                \* the collaborator calls each job has issued, in order
  stored,                 \* what each job's store_analysis_result call returned
  callbacks,              \* the callback POSTs each job has issued, in order
  text,                   \* a model output handed to _parse_analysis_json
  parsed,                 \* how that call ended, None while it has not run
  issued                  \* a store update issued on its own and how it ended

vars == <<pc, payload, analysis_status_store, now, extraction, analysis_result,
          report_result, result, invoked, stored, callbacks, text, parsed, issued>>

\* handle_policy_uploaded draws the id from uuid4: one id per job
AnalysisId(j) == j

\* datetime.utcnow(): the clock never runs backwards.  Time is counted from
\* the readings: a job's first reading (started_at) is the clock as the last
\* reading left it, every later reading may have moved on by a tick
Reads(t) == {u \in {t, t + 1} : u <= MaxClock}

\* dict.update(fields)
Merge(entry, fields) ==
  [k \in DOMAIN entry \cup DOMAIN fields |->
     IF k \in DOMAIN fields THEN fields[k] ELSE entry[k]]

\* store[id] = entry
Assign(store, id, entry) ==
  [i \in DOMAIN store \cup {id} |-> IF i = id THEN entry ELSE store[i]]

\* as UpdateEntry, but the fields are merged into every entry of the store
UpdateEntry_All(store, id, fields) ==
  [i \in DOMAIN store |-> Merge(store[i], fields)]

\* store[id].update(fields), the entry being there
UpdateEntry(store, id, fields) ==
  [store EXCEPT ![id] = Merge(store[id], fields)]

\* as _update_status, but the "generating" write is lost
_update_status_SkipsGenerating(store, id, status, progress) ==
  IF id \in DOMAIN store /\ status # "generating"
    THEN UpdateEntry(store, id, [status |-> status, progress |-> progress])
    ELSE store

_update_status(store, id, status, progress) ==
  IF id \in DOMAIN store
    THEN UpdateEntry(store, id, [status |-> status, progress |-> progress])
    ELSE store

\* a tick is 8 ms; the duration is in hundredths of a second, round(_, 2)
_calculate_duration(store, id, t) ==
  IF id \notin DOMAIN store THEN 0
  ELSE (8 * (t - store[id].started_at) + 5) \div 10

NoPayload ==
  [ _local_file_path |-> None, file_url |-> None, policy_id |-> None,
    callback_url |-> None, client_name |-> "Acme Corp" ]

Init ==
  /\ pc = [j \in Jobs |-> "idle"]
  /\ payload = [j \in Jobs |-> NoPayload]
  /\ analysis_status_store = [i \in {} |-> NoPayload]
  /\ now = 0
  /\ extraction = [j \in Jobs |-> None]
  /\ analysis_result = [j \in Jobs |-> None]
  /\ report_result = [j \in Jobs |-> None]
  /\ result = [j \in Jobs |-> None]
  /\ invoked = [j \in Jobs |-> <<>>]
  /\ stored = [j \in Jobs |-> None]
  /\ callbacks = [j \in Jobs |-> <<>>]
  /\ text = <<>>
  /\ parsed = None
  /\ issued = None

\* handle_policy_uploaded awaiting the pipeline before it answers: the entry
\* of run_policy_analysis is written within the handler's own step
SubmitOf_Awaits(j, bodies) ==
  /\ pc[j] = "idle"
  /\ \E p \in bodies : payload' = [payload EXCEPT ![j] = p]
  /\ analysis_status_store' =
         Assign(analysis_status_store, AnalysisId(j),
                [ analysis_id |-> AnalysisId(j), status |-> "started",
                  progress |-> "Initializing...", started_at |-> now,
                  completed_at |-> None, error |-> None, result |-> None ])
  /\ pc' = [pc EXCEPT ![j] = "started"]
  /\ UNCHANGED <<text, parsed, issued, now, extraction, analysis_result,
                 report_result, result, invoked, stored, callbacks>>

\* handle_policy_uploaded: background_tasks.add_task(run_policy_analysis, ...)
SubmitOf(j, bodies) ==
  /\ pc[j] = "idle"
  /\ \E p \in bodies : payload' = [payload EXCEPT ![j] = p]
  /\ pc' = [pc EXCEPT ![j] = "queued"]
  /\ UNCHANGED <<text, parsed, issued, analysis_status_store, now, extraction,
                 analysis_result, report_result, result, invoked, stored,
                 callbacks>>

Submit(j) == SubmitOf(j, Payloads)

\* run_policy_analysis, "Initialize status"
Begin(j) ==
  /\ pc[j] = "queued"
  /\ LET t == now
     IN analysis_status_store' =
            Assign(analysis_status_store, AnalysisId(j),
                   [ analysis_id |-> AnalysisId(j), status |-> "started",
                     progress |-> "Initializing...", started_at |-> t,
                     completed_at |-> None, error |-> None, result |-> None ])
  /\ pc' = [pc EXCEPT ![j] = "started"]
  /\ UNCHANGED <<text, parsed, issued, payload, now, extraction, analysis_result, report_result,
                 result, invoked, stored, callbacks>>

\* the POST _send_callback issues
Post(j, status, error_message, completed_at, body) ==
  [ url |-> payload[j].callback_url, status |-> status,
    error_message |-> error_message, completed_at |-> completed_at,
    body |-> body, outcome |-> "pending", logged |-> None, returned |-> None ]

\* as _send_callback, but every delivery is logged as a success
_send_callback_InfoOnly(o) == [ logged |-> "info", returned |-> None ]

\* _send_callback once the POST is over with outcome o: what it logs (info
\* on 200, warning on any other response, error when httpx raises) and what
\* it returns to run_policy_analysis; the function has no return statement
_send_callback(o) ==
  [ logged |-> IF o = "200" THEN "info"
               ELSE IF o = "timeout" THEN "error" ELSE "warning",
    returned |-> None ]

Delivered(cb, o) ==
  [cb EXCEPT !.outcome = o, !.logged = Some(_send_callback(o).logged),
             !.returned = _send_callback(o).returned]

\* as HandleException, but the exception is swallowed: the task ends and
\* the entry keeps the status of the stage that raised
HandleException_Swallows(j, store, msg) ==
  /\ analysis_status_store' = store
  /\ pc' = [pc EXCEPT ![j] = "done"]
  /\ UNCHANGED <<now, callbacks>>

\* the except block of run_policy_analysis, entered with the store as the
\* try block left it and msg = str(e)
HandleException(j, store, msg) ==
  \E t1 \in Reads(now) :
    /\ analysis_status_store' =
         UpdateEntry(store, AnalysisId(j),
                     [ status |-> "failed", progress |-> "Analysis failed",
                       error |-> Some(msg), completed_at |-> Some(t1) ])
    /\ IF Truthy(payload[j].callback_url)
         THEN \E t2 \in Reads(t1) :
                /\ now' = t2
                /\ callbacks' = [callbacks EXCEPT ![j] =
                     Append(@, Post(j, "failed", Some(msg), t2, None))]
                /\ pc' = [pc EXCEPT ![j] = "await_failure_callback"]
         ELSE /\ now' = t1
              /\ UNCHANGED callbacks
              /\ pc' = [pc EXCEPT ![j] = "done"]

\* as Complete, but completed_at is left out of the update
Complete_NoTimestamp(j, res) ==
  /\ analysis_status_store' =
       UpdateEntry(analysis_status_store, AnalysisId(j),
                   [ status |-> "completed", progress |-> "Analysis complete",
                     result |-> Some(res) ])
  /\ IF Truthy(payload[j].callback_url)
       THEN /\ callbacks' = [callbacks EXCEPT ![j] =
                 Append(@, Post(j, res.status, None, res.completed_at, Some(res)))]
            /\ pc' = [pc EXCEPT ![j] = "await_callback"]
       ELSE /\ UNCHANGED callbacks
            /\ pc' = [pc EXCEPT ![j] = "done"]

\* as Complete, but the result is left out of the update
Complete_NoResult(j, res) ==
  /\ analysis_status_store' =
       UpdateEntry(analysis_status_store, AnalysisId(j),
                   [ status |-> "completed", progress |-> "Analysis complete",
                     completed_at |-> Some(res.completed_at) ])
  /\ IF Truthy(payload[j].callback_url)
       THEN /\ callbacks' = [callbacks EXCEPT ![j] =
                 Append(@, Post(j, res.status, None, res.completed_at, Some(res)))]
            /\ pc' = [pc EXCEPT ![j] = "await_callback"]
       ELSE /\ UNCHANGED callbacks
            /\ pc' = [pc EXCEPT ![j] = "done"]

\* as Complete, but the callback is posted whether or not the payload has
\* a callback_url
Complete_PostsAlways(j, res) ==
  /\ analysis_status_store' =
       UpdateEntry(analysis_status_store, AnalysisId(j),
                   [ status |-> "completed", progress |-> "Analysis complete",
                     completed_at |-> Some(res.completed_at),
                     result |-> Some(res) ])
  /\ callbacks' = [callbacks EXCEPT ![j] =
       Append(@, Post(j, res.status, None, res.completed_at, Some(res)))]
  /\ pc' = [pc EXCEPT ![j] = "await_callback"]

\* "Update status to complete" and "Send callback (if configured)"
Complete(j, res) ==
  /\ analysis_status_store' =
       UpdateEntry(analysis_status_store, AnalysisId(j),
                   [ status |-> "completed", progress |-> "Analysis complete",
                     completed_at |-> Some(res.completed_at),
                     result |-> Some(res) ])
  /\ IF Truthy(payload[j].callback_url)
       THEN /\ callbacks' = [callbacks EXCEPT ![j] =
                 Append(@, Post(j, res.status, None, res.completed_at, Some(res)))]
            /\ pc' = [pc EXCEPT ![j] = "await_callback"]
       ELSE /\ UNCHANGED callbacks
            /\ pc' = [pc EXCEPT ![j] = "done"]

\* as StartExtraction, but the final "else: raise ValueError" is missing and
\* the URL branch is taken whenever there is no local path
StartExtraction_NoElse(j) ==
  /\ pc[j] = "started"
  /\ invoked' = [invoked EXCEPT ![j] =
       Append(@, IF Truthy(payload[j]._local_file_path)
                   THEN "extract_from_file" ELSE "extract_from_url")]
  /\ analysis_status_store' =
       _update_status(analysis_status_store, AnalysisId(j),
                      "extracting", "Extracting text from PDF...")
  /\ pc' = [pc EXCEPT ![j] = "await_extract"]
  /\ UNCHANGED <<text, parsed, issued, payload, now, extraction, analysis_result, report_result,
                 result, stored, callbacks>>

\* STEP 1: the status write, then the choice of the source
StartExtraction(j) ==
  /\ pc[j] = "started"
  /\ LET store == _update_status(analysis_status_store, AnalysisId(j),
                                 "extracting", "Extracting text from PDF...")
     IN IF Truthy(payload[j]._local_file_path)
          THEN /\ invoked' = [invoked EXCEPT ![j] = Append(@, "extract_from_file")]
               /\ analysis_status_store' = store
               /\ pc' = [pc EXCEPT ![j] = "await_extract"]
               /\ UNCHANGED <<now, callbacks>>
        ELSE IF Truthy(payload[j].file_url)
          THEN /\ invoked' = [invoked EXCEPT ![j] = Append(@, "extract_from_url")]
               /\ analysis_status_store' = store
               /\ pc' = [pc EXCEPT ![j] = "await_extract"]
               /\ UNCHANGED <<now, callbacks>>
        ELSE /\ HandleException(j, store, <<"No", "file", "path", "or", "URL", "provided">>)
             /\ UNCHANGED invoked
  /\ UNCHANGED <<text, parsed, issued, payload, extraction, analysis_result, report_result, result,
                 stored>>

\* as ExtractReturn, but extraction.success is not looked at
ExtractReturn_Unchecked(j) ==
  /\ pc[j] = "await_extract"
  /\ \E r \in ExtractionResults :
       extraction' = [extraction EXCEPT ![j] = Some(r)]
  /\ analysis_status_store' =
       _update_status(analysis_status_store, AnalysisId(j),
                      "analyzing", "Analyzing policy with Claude...")
  /\ invoked' = [invoked EXCEPT ![j] = Append(@, "analyze_policy")]
  /\ pc' = [pc EXCEPT ![j] = "await_analyze"]
  /\ UNCHANGED <<text, parsed, issued, payload, now, analysis_result, report_result, result, stored,
                 callbacks>>

\* as ExtractReturn, but the analyzer is called before "analyzing" is
\* written: the entry still says "extracting" while the call is in flight
ExtractReturn_CallsFirst(j) ==
  /\ pc[j] = "await_extract"
  /\ \E r \in ExtractionResults :
       /\ extraction' = [extraction EXCEPT ![j] = Some(r)]
       /\ IF ~r.success
            THEN /\ HandleException(j, analysis_status_store,
                       <<"PDF", "extraction", "failed:">> \o Val(r.error))
                 /\ UNCHANGED invoked
            ELSE /\ invoked' = [invoked EXCEPT ![j] = Append(@, "analyze_policy")]
                 /\ pc' = [pc EXCEPT ![j] = "await_analyze"]
                 /\ UNCHANGED <<analysis_status_store, now, callbacks>>
  /\ UNCHANGED <<text, parsed, issued, payload, analysis_result, report_result, result, stored>>

\* the extractor returns; STEP 2: the status write and the analyzer call
ExtractReturn(j) ==
  /\ pc[j] = "await_extract"
  /\ \E r \in ExtractionResults :
       /\ extraction' = [extraction EXCEPT ![j] = Some(r)]
       /\ IF ~r.success
            THEN /\ HandleException(j, analysis_status_store,
                       <<"PDF", "extraction", "failed:">> \o Val(r.error))
                 /\ UNCHANGED invoked
            ELSE /\ analysis_status_store' =
                      _update_status(analysis_status_store, AnalysisId(j),
                                     "analyzing", "Analyzing policy with Claude...")
                 /\ invoked' = [invoked EXCEPT ![j] = Append(@, "analyze_policy")]
                 /\ pc' = [pc EXCEPT ![j] = "await_analyze"]
                 /\ UNCHANGED <<now, callbacks>>
  /\ UNCHANGED <<text, parsed, issued, payload, analysis_result, report_result, result, stored>>

\* the analyzer returns; STEP 3: the status write and the generator call
AnalyzeReturn(j) ==
  /\ pc[j] = "await_analyze"
  /\ \E env \in AnalyzerEnvs :
       LET r == analyze_policy(env)
       IN /\ analysis_result' = [analysis_result EXCEPT ![j] = Some(r)]
          /\ IF ~r.success
               THEN /\ HandleException(j, analysis_status_store,
                          <<"Claude", "analysis", "failed:">> \o Val(r.error))
                    /\ UNCHANGED invoked
               ELSE /\ analysis_status_store' =
                         _update_status(analysis_status_store, AnalysisId(j),
                                        "generating", "Generating PDF report...")
                    /\ invoked' = [invoked EXCEPT ![j] = Append(@, "generate_report")]
                    /\ pc' = [pc EXCEPT ![j] = "await_render"]
                    /\ UNCHANGED <<now, callbacks>>
  /\ UNCHANGED <<text, parsed, issued, payload, extraction, report_result, result, stored>>

\* as BuildRaises, but executive_summary is read with a subscript and not
\* with .get: an analysis without that key raises too
BuildRaises_MissingSummary(analysis_data) ==
  "es:null" \in analysis_data.keys \/ "es:full" \notin analysis_data.keys

\* analysis_data.get("executive_summary", {}) is None: the next .get raises
BuildRaises(analysis_data) == "es:null" \in analysis_data.keys

\* "Build result summary"
BuildResult(j, analysis_data, report_path, t1, t2) ==
  [ analysis_id |-> AnalysisId(j),
    policy_id |-> payload[j].policy_id,
    client_name |-> payload[j].client_name,
    status |-> "completed",
    overall_score |-> IF "es:full" \in analysis_data.keys THEN Some(7) ELSE None,
    recommendation |-> IF "es:full" \in analysis_data.keys THEN Some("BIND") ELSE None,
    report_path |-> report_path,
    analysis_data |-> analysis_data,
    completed_at |-> t1,
    processing_time_seconds |->
      _calculate_duration(analysis_status_store, AnalysisId(j), t2) ]

\* the generator returns; the result is built; STEP 5: the store call, if
\* the payload has a policy id; else the job completes
RenderReturn(j) ==
  /\ pc[j] = "await_render"
  /\ \E rr \in ReportResults :
       LET analysis_data == Val(Val(analysis_result[j]).analysis_data)
           report_path == IF ~rr.success THEN None ELSE rr.report_path
       IN /\ report_result' = [report_result EXCEPT ![j] = Some(rr)]
          /\ IF BuildRaises(analysis_data)
            THEN /\ HandleException(j, analysis_status_store,
                       <<"'NoneType'", "object", "has", "no", "attribute", "'get'">>)
                 /\ UNCHANGED <<invoked, result>>
            ELSE \E t1 \in Reads(now) : \E t2 \in Reads(t1) :
                   LET res == BuildResult(j, analysis_data, report_path, t1, t2)
                   IN /\ now' = t2
                      /\ result' = [result EXCEPT ![j] = Some(res)]
                      /\ IF Truthy(payload[j].policy_id)
                           THEN /\ invoked' = [invoked EXCEPT ![j] =
                                     Append(@, "store_analysis_result")]
                                /\ pc' = [pc EXCEPT ![j] = "await_store"]
                                /\ UNCHANGED <<analysis_status_store, callbacks>>
                           ELSE /\ Complete(j, res)
                                /\ UNCHANGED invoked
  /\ UNCHANGED <<text, parsed, issued, payload, extraction, analysis_result, stored>>

\* SupabaseService.store_analysis_result: True when the row was updated,
\* False without a client and when the update raised
store_analysis_result(outcome) == outcome = "stored"

\* as StoreReturn, but an exception of the update is not caught in
\* store_analysis_result and reaches the except block of the job
StoreReturn_Raising(j) ==
  /\ pc[j] = "await_store"
  /\ \E o \in StoreOutcomes :
       IF o = "raises"
         THEN /\ HandleException(j, analysis_status_store, <<"update", "failed">>)
              /\ UNCHANGED stored
         ELSE /\ stored' = [stored EXCEPT ![j] = Some(store_analysis_result(o))]
              /\ Complete(j, Val(result[j]))
              /\ UNCHANGED now
  /\ UNCHANGED <<text, parsed, issued, payload, extraction, analysis_result, report_result, result,
                 invoked>>

\* the store call returns (its value is not read); the job completes
StoreReturn(j) ==
  /\ pc[j] = "await_store"
  /\ \E o \in StoreOutcomes :
       stored' = [stored EXCEPT ![j] = Some(store_analysis_result(o))]
  /\ Complete(j, Val(result[j]))
  /\ UNCHANGED <<text, parsed, issued, payload, now, extraction, analysis_result, report_result,
                 result, invoked>>

\* as CallbackReturn, but _send_callback does not catch: a failed delivery
\* of the success payload reaches the except block of the job
CallbackReturn_Raising(j) ==
  /\ pc[j] \in {"await_callback", "await_failure_callback"}
  /\ \E o \in CallbackOutcomes :
       IF pc[j] = "await_callback" /\ o = "timeout"
         THEN HandleException(j, analysis_status_store, <<"callback", "timed", "out">>)
         ELSE /\ callbacks' = [callbacks EXCEPT ![j][Len(callbacks[j])] = Delivered(@, o)]
              /\ pc' = [pc EXCEPT ![j] = "done"]
              /\ UNCHANGED <<analysis_status_store, now>>
  /\ UNCHANGED <<text, parsed, issued, payload, extraction, analysis_result, report_result, result,
                 invoked, stored>>

\* as CallbackReturn, but completed_at is stamped again once the callback
\* is through
CallbackReturn_Restamps(j) ==
  /\ pc[j] \in {"await_callback", "await_failure_callback"}
  /\ \E o \in CallbackOutcomes :
       callbacks' = [callbacks EXCEPT ![j][Len(callbacks[j])] = Delivered(@, o)]
  /\ \E t \in Reads(now) :
       /\ now' = t
       /\ analysis_status_store' =
            UpdateEntry(analysis_status_store, AnalysisId(j),
                        [completed_at |-> Some(t)])
  /\ pc' = [pc EXCEPT ![j] = "done"]
  /\ UNCHANGED <<text, parsed, issued, payload, extraction, analysis_result, report_result, result,
                 invoked, stored>>

\* as CallbackReturn, but a delivery that was not answered 200 is posted
\* once more
CallbackReturn_Retries(j) ==
  /\ pc[j] \in {"await_callback", "await_failure_callback"}
  /\ \E o \in CallbackOutcomes :
       LET n == Len(callbacks[j])
           done == [callbacks EXCEPT ![j][n] = Delivered(@, o)]
       IN IF o # "200" /\ n < 2
            THEN /\ callbacks' = [done EXCEPT ![j] =
                      Append(@, [callbacks[j][n] EXCEPT !.outcome = "pending"])]
                 /\ UNCHANGED pc
            ELSE /\ callbacks' = done
                 /\ pc' = [pc EXCEPT ![j] = "done"]
  /\ UNCHANGED <<text, parsed, issued, payload, analysis_status_store, now, extraction,
                 analysis_result, report_result, result, invoked, stored>>

\* as CallbackReturn, but a delivery that was not answered 200 is written
\* to the error field of the job's entry
CallbackReturn_RecordsFailure(j) ==
  /\ pc[j] \in {"await_callback", "await_failure_callback"}
  /\ \E o \in CallbackOutcomes :
       /\ callbacks' = [callbacks EXCEPT ![j][Len(callbacks[j])] = Delivered(@, o)]
       /\ analysis_status_store' =
            IF o = "200" THEN analysis_status_store
            ELSE UpdateEntry(analysis_status_store, AnalysisId(j),
                             [error |-> Some(<<"callback", "failed">>)])
  /\ pc' = [pc EXCEPT ![j] = "done"]
  /\ UNCHANGED <<text, parsed, issued, payload, now, extraction, analysis_result, report_result,
                 result, invoked, stored>>

\* _send_callback: the POST is answered or fails; either way nothing is
\* raised and nothing is returned
CallbackReturn(j) ==
  /\ pc[j] \in {"await_callback", "await_failure_callback"}
  /\ \E o \in CallbackOutcomes :
       callbacks' = [callbacks EXCEPT ![j][Len(callbacks[j])] = Delivered(@, o)]
  /\ pc' = [pc EXCEPT ![j] = "done"]
  /\ UNCHANGED <<text, parsed, issued, payload, analysis_status_store, now, extraction,
                 analysis_result, report_result, result, invoked, stored>>

Next ==
  \E j \in Jobs :
    \/ Submit(j)
    \/ Begin(j)
    \/ StartExtraction(j)
    \/ ExtractReturn(j)
    \/ AnalyzeReturn(j)
    \/ RenderReturn(j)
    \/ StoreReturn(j)
    \/ CallbackReturn(j)

Spec == Init /\ [][Next]_vars

\* ------------------------------------------- the parser on its own
\* model outputs: an opening, a body of at most MaxBodyLen tokens, a closing
BodyTokens ==
  {"{", "}", "[", "]", "1", "null", "a:1", "es:full", "ws", "prose", "deep"}
Bodies == UNION { [1..n -> BodyTokens] : n \in 0..MaxBodyLen }
Openings ==
  { <<>>, <<"prose">>, <<"fence">>, <<"fence", "json", "ws">>,
    <<"prose", "fence", "json">> }
Closings ==
  { <<>>, <<"prose">>, <<"ws", "fence">>, <<"fence", "prose">>,
    <<"fence", "{", "a:1", "}">> }
Texts == { o \o b \o c : o \in Openings, b \in Bodies, c \in Closings }

ParserInit ==
  /\ pc = [j \in Jobs |-> "idle"]
  /\ payload = [j \in Jobs |-> NoPayload]
  /\ analysis_status_store = [i \in {} |-> NoPayload]
  /\ now = 0
  /\ extraction = [j \in Jobs |-> None]
  /\ analysis_result = [j \in Jobs |-> None]
  /\ report_result = [j \in Jobs |-> None]
  /\ result = [j \in Jobs |-> None]
  /\ invoked = [j \in Jobs |-> <<>>]
  /\ stored = [j \in Jobs |-> None]
  /\ callbacks = [j \in Jobs |-> <<>>]
  /\ text \in Texts
  /\ parsed = None
  /\ issued = None

\* analysis_data = self._parse_analysis_json(raw_text)
Parse ==
  /\ parsed = None
  /\ parsed' = Some(_parse_analysis_json(text))
  /\ UNCHANGED <<text, issued, pc, payload, analysis_status_store, now, extraction,
                 analysis_result, report_result, result, invoked, stored,
                 callbacks>>

ParserNext == Parse

ParserSpec == ParserInit /\ [][ParserNext]_vars

\* ------------------------------------------- an analysis id drawn twice
\* handle_policy_uploaded draws uuid4().hex[:12] without looking at the
\* store: the id of a job that is over comes out again and a new task is
\* added under it, its locals fresh
Resubmit(j) ==
  /\ pc[j] = "done"
  /\ \E p \in Payloads : payload' = [payload EXCEPT ![j] = p]
  /\ pc' = [pc EXCEPT ![j] = "queued"]
  /\ extraction' = [extraction EXCEPT ![j] = None]
  /\ analysis_result' = [analysis_result EXCEPT ![j] = None]
  /\ report_result' = [report_result EXCEPT ![j] = None]
  /\ result' = [result EXCEPT ![j] = None]
  /\ stored' = [stored EXCEPT ![j] = None]
  /\ invoked' = [invoked EXCEPT ![j] = <<>>]
  /\ callbacks' = [callbacks EXCEPT ![j] = <<>>]
  /\ UNCHANGED <<text, parsed, issued, analysis_status_store, now>>

ReuseNext ==
  \/ Next
  \/ \E j \in Jobs : Resubmit(j)

ReuseSpec == Init /\ [][ReuseNext]_vars

\* ------------------------------------------- store updates on their own
\* the updates run_policy_analysis issues, each applied to a store that may
\* or may not hold the id
StoreIds == 1..MaxIds
Progress ==
  [ started |-> "Initializing...", extracting |-> "Extracting text from PDF...",
    analyzing |-> "Analyzing policy with Claude...",
    generating |-> "Generating PDF report..." ]
StoreEntries(id) ==
  { [ analysis_id |-> id, status |-> st, progress |-> Progress[st],
      started_at |-> 0, completed_at |-> None, error |-> None, result |-> None ] :
    st \in DOMAIN Progress }
Stores ==
  UNION { { st \in [ids -> UNION {StoreEntries(i) : i \in ids}] :
              \A i \in ids : st[i] \in StoreEntries(i) } : ids \in SUBSET StoreIds }

\* analysis_status_store[analysis_id] raises KeyError
KeyError(store, id) == id \notin DOMAIN store

UpdateKinds == {"_update_status", "completed", "failed"}

\* what the update of one kind for id does to the store, whether an
\* exception leaves run_policy_analysis through it, and the line it logs:
\* _update_status tests for the id and logs its progress line at info
\* either way; the two terminal updates subscript the store, so an absent
\* id raises KeyError: in the try block that enters the except block, whose
\* own update raises again, and nothing catches that one
IssuedUpdate(store, id, kind) ==
  IF kind = "_update_status"
    THEN [ store |-> _update_status(store, id, "analyzing",
                                    "Analyzing policy with Claude..."),
           raised |-> FALSE, logged |-> Some("info") ]
  ELSE IF KeyError(store, id)
    THEN [ store |-> store, raised |-> TRUE, logged |-> None ]
  ELSE IF kind = "completed"
    THEN [ store |-> UpdateEntry(store, id,
                       [ status |-> "completed", progress |-> "Analysis complete",
                         completed_at |-> Some(now) ]),
           raised |-> FALSE, logged |-> Some("info") ]
  ELSE [ store |-> UpdateEntry(store, id,
                     [ status |-> "failed", progress |-> "Analysis failed",
                       error |-> Some(<<"boom">>), completed_at |-> Some(now) ]),
         raised |-> FALSE, logged |-> None ]

UpdateInit ==
  /\ pc = [j \in Jobs |-> "idle"]
  /\ payload = [j \in Jobs |-> NoPayload]
  /\ analysis_status_store \in Stores
  /\ now \in 0..MaxClock
  /\ extraction = [j \in Jobs |-> None]
  /\ analysis_result = [j \in Jobs |-> None]
  /\ report_result = [j \in Jobs |-> None]
  /\ result = [j \in Jobs |-> None]
  /\ invoked = [j \in Jobs |-> <<>>]
  /\ stored = [j \in Jobs |-> None]
  /\ callbacks = [j \in Jobs |-> <<>>]
  /\ text = <<>>
  /\ parsed = None
  /\ issued = None

Update(id, kind) ==
  /\ issued = None
  /\ LET u == IssuedUpdate(analysis_status_store, id, kind)
     IN /\ analysis_status_store' = u.store
        /\ issued' = Some([ id |-> id, kind |-> kind, raised |-> u.raised,
                            logged |-> u.logged ])
  /\ UNCHANGED <<text, parsed, pc, payload, now, extraction, analysis_result,
                 report_result, result, invoked, stored, callbacks>>

UpdateNext == \E id \in StoreIds, kind \in UpdateKinds : Update(id, kind)

UpdateSpec == UpdateInit /\ [][UpdateNext]_vars

\* ------------------------------------------- jobs side by side
\* NumConcurrent tasks on the one event loop, each under its own id; the
\* webhook payload with a URL and nothing else
ConcJobs == 1..NumConcurrent
ConcPayloads ==
  { p \in Payloads : /\ p._local_file_path = None /\ p.file_url # None
                     /\ p.policy_id = None /\ p.callback_url = None }

ConcInit ==
  /\ pc = [j \in ConcJobs |-> "idle"]
  /\ payload = [j \in ConcJobs |-> NoPayload]
  /\ analysis_status_store = [i \in {} |-> NoPayload]
  /\ now = 0
  /\ extraction = [j \in ConcJobs |-> None]
  /\ analysis_result = [j \in ConcJobs |-> None]
  /\ report_result = [j \in ConcJobs |-> None]
  /\ result = [j \in ConcJobs |-> None]
  /\ invoked = [j \in ConcJobs |-> <<>>]
  /\ stored = [j \in ConcJobs |-> None]
  /\ callbacks = [j \in ConcJobs |-> <<>>]
  /\ text = <<>>
  /\ parsed = None
  /\ issued = None

ConcNext ==
  \E j \in ConcJobs :
    \/ SubmitOf(j, ConcPayloads)
    \/ Begin(j)
    \/ StartExtraction(j)
    \/ ExtractReturn(j)
    \/ AnalyzeReturn(j)
    \/ RenderReturn(j)

ConcSpec == ConcInit /\ [][ConcNext]_vars

\* ------------------------------------------- the pipeline kept running
\* the event loop runs every task that is ready, and every collaborator
\* call returns or raises in the end: no step of a job's task stays enabled
\* for ever without being taken
TaskStep(j) ==
  \/ Begin(j)
  \/ StartExtraction(j)
  \/ ExtractReturn(j)
  \/ AnalyzeReturn(j)
  \/ RenderReturn(j)
  \/ StoreReturn(j)
  \/ CallbackReturn(j)

\* the webhook payloads, with a URL or with no source at all, that have
\* both a policy_id and a callback_url or neither: each "if" of the task is
\* taken both ways
LivePayloads ==
  { p \in Payloads : /\ p._local_file_path = None
                     /\ p.policy_id # None <=> p.callback_url # None }

LiveNext ==
  \E j \in Jobs :
    \/ SubmitOf(j, LivePayloads)
    \/ TaskStep(j)

FairSpec == Init /\ [][LiveNext]_vars /\ \A j \in Jobs : WF_vars(TaskStep(j))

\* ----------------------------------------------------------- properties
HasEntry(j) == AnalysisId(j) \in DOMAIN analysis_status_store
Entry(j) == analysis_status_store[AnalysisId(j)]
Terminal(status) == status \in {"completed", "failed"}

ExtractionSucceeded(j) == extraction[j] # None /\ Val(extraction[j]).success
ExtractionFailed(j) == extraction[j] # None /\ ~Val(extraction[j]).success
AnalysisSucceeded(j) == analysis_result[j] # None /\ Val(analysis_result[j]).success
AnalysisFailed(j) == analysis_result[j] # None /\ ~Val(analysis_result[j]).success
RenderFailed(j) == report_result[j] # None /\ ~Val(report_result[j]).success
NoSource(j) == ~Truthy(payload[j]._local_file_path) /\ ~Truthy(payload[j].file_url)
BothSources(j) == Truthy(payload[j]._local_file_path) /\ Truthy(payload[j].file_url)
Running(j) == pc[j] \notin {"idle", "queued"}
Returned(j) == pc[j] = "done"
InvalidRequest == <<"No", "file", "path", "or", "URL", "provided">>

\* C1: once a job's status in the store is completed or failed, no step of
\* any job changes it (nor removes the entry)
C1_TerminalIsFinal ==
  [][\A j \in Jobs :
       (HasEntry(j) /\ Terminal(Entry(j).status))
         => /\ AnalysisId(j) \in DOMAIN analysis_status_store'
            /\ analysis_status_store'[AnalysisId(j)].status = Entry(j).status]_vars

\* a completed job whose callback delivery then failed
C1_Witness ==
  \E j \in Jobs :
    /\ Returned(j) /\ Entry(j).status = "completed"
    /\ Len(callbacks[j]) = 1 /\ callbacks[j][1].outcome = "timeout"

StatusTransitions ==
  { <<"started", "extracting">>, <<"extracting", "analyzing">>,
    <<"analyzing", "generating">>, <<"generating", "completed">> }
  \cup { <<x, "failed">> : x \in {"started", "extracting", "analyzing", "generating"} }

\* C2: every change of a job's status is one of started->extracting,
\* extracting->analyzing, analyzing->generating, generating->completed or
\* X->failed with X a non-terminal status; a new entry starts at started
C2_OnlyPipelineTransitions ==
  [][\A j \in Jobs :
       LET id == AnalysisId(j)
       IN /\ (id \notin DOMAIN analysis_status_store
                /\ id \in DOMAIN analysis_status_store')
              => analysis_status_store'[id].status = "started"
          /\ (id \in DOMAIN analysis_status_store
                /\ id \in DOMAIN analysis_status_store'
                /\ analysis_status_store'[id].status # analysis_status_store[id].status)
              => <<analysis_status_store[id].status,
                   analysis_status_store'[id].status>> \in StatusTransitions]_vars

\* a job that went all the way to completed, through the store write
C2_Witness ==
  \E j \in Jobs :
    /\ Returned(j) /\ Entry(j).status = "completed"
    /\ invoked[j] = <<"extract_from_url", "analyze_policy", "generate_report",
                      "store_analysis_result">>

\* C3: completed_at is set exactly in the entries whose status is terminal
C3_CompletedAtIffTerminal ==
  \A id \in DOMAIN analysis_status_store :
    (analysis_status_store[id].completed_at # None)
      <=> Terminal(analysis_status_store[id].status)

\* a failed entry, stamped
C3_Witness ==
  \E id \in DOMAIN analysis_status_store :
    /\ analysis_status_store[id].status = "failed"
    /\ analysis_status_store[id].completed_at # None

\* C4: result is set exactly in the entries whose status is completed
C4_ResultIffCompleted ==
  \A id \in DOMAIN analysis_status_store :
    (analysis_status_store[id].result # None)
      <=> analysis_status_store[id].status = "completed"

\* a completed entry with its result, here a degraded one
C4_Witness ==
  \E id \in DOMAIN analysis_status_store :
    /\ analysis_status_store[id].status = "completed"
    /\ analysis_status_store[id].result # None
    /\ "raw_analysis" \in Val(analysis_status_store[id].result).analysis_data.keys

\* C5: a job whose payload has neither a local path nor a URL calls no
\* collaborator at any point and, from its first step on the payload, is
\* failed with the invalid-request message
C5_NoSourceFailsUntouched ==
  \A j \in Jobs :
    (Running(j) /\ NoSource(j))
      => /\ invoked[j] = <<>>
         /\ stored[j] = None
         /\ pc[j] \in {"started", "await_failure_callback", "done"}
         /\ pc[j] # "started"
              => /\ Entry(j).status = "failed"
                 /\ Entry(j).error = Some(InvalidRequest)

\* such a job, returned
C5_Witness ==
  \E j \in Jobs :
    /\ Returned(j) /\ NoSource(j)
    /\ Entry(j).status = "failed" /\ Entry(j).error = Some(InvalidRequest)

\* C6, as claimed: a job whose payload has both a local path and a URL calls
\* no extractor and is failed with the invalid-request message
C6_BothSourcesRejected ==
  \A j \in Jobs :
    (Running(j) /\ BothSources(j))
      => /\ invoked[j] = <<>>
         /\ pc[j] # "started"
              => /\ Entry(j).status = "failed"
                 /\ Entry(j).error = Some(InvalidRequest)

\* C7: once the extractor has returned a failure, the job is failed with a
\* message that has the word "extraction" and the extractor's error text in
\* it, no collaborator but the extractor was called, and a failure callback
\* was issued exactly if the payload has a callback target
C7_ExtractionFailure ==
  \A j \in Jobs :
    ExtractionFailed(j)
      => /\ Entry(j).status = "failed"
         /\ Contains(Val(Entry(j).error), "extraction")
         /\ ContainsText(Val(Entry(j).error), Val(Val(extraction[j]).error))
         /\ Len(invoked[j]) = 1
         /\ invoked[j][1] \in {"extract_from_file", "extract_from_url"}
         /\ stored[j] = None
         /\ Len(callbacks[j]) = (IF Truthy(payload[j].callback_url) THEN 1 ELSE 0)
         /\ \A i \in DOMAIN callbacks[j] :
              /\ callbacks[j][i].status = "failed"
              /\ callbacks[j][i].error_message = Entry(j).error

\* a failed download from a URL, reported to the callback target
C7_Witness ==
  \E j \in Jobs :
    /\ Returned(j) /\ ExtractionFailed(j)
    /\ invoked[j] = <<"extract_from_url">>
    /\ Len(callbacks[j]) = 1 /\ callbacks[j][1].status = "failed"

\* the entry of a job up to the return of its analyzer call: not completed,
\* no result, not stamped
BeforeAnalysisReturn(j) ==
  (pc[j] \in {"started", "await_extract", "await_analyze"})
    => /\ Entry(j).status \in {"started", "extracting", "analyzing"}
       /\ Entry(j).result = None
       /\ Entry(j).completed_at = None

\* the entry of a job whose analyzer call returned a failure
AfterAnalysisFailure(j) ==
  AnalysisFailed(j)
    => /\ Entry(j).status = "failed"
       /\ Entry(j).result = None
       /\ Entry(j).completed_at # None
       /\ ~Contains(invoked[j], "generate_report")
       /\ ~Contains(invoked[j], "store_analysis_result")
       /\ stored[j] = None

\* C8: a job whose analysis fails is never completed and never has a result,
\* neither before the failure nor after it; completed_at goes from None to a
\* time in the failing step and is not written again; renderer and result
\* store are not called
C8_AnalysisFailure ==
  [][\A j \in Jobs :
       /\ BeforeAnalysisReturn(j)'
       /\ AfterAnalysisFailure(j)'
       /\ AnalysisFailed(j)
            => analysis_status_store'[AnalysisId(j)].completed_at
                 = Entry(j).completed_at]_vars

\* a job failed by the analyzer, its failure callback delivered later
C8_Witness ==
  \E j \in Jobs :
    /\ Returned(j) /\ AnalysisFailed(j)
    /\ Entry(j).status = "failed" /\ Entry(j).completed_at # None
    /\ Len(callbacks[j]) = 1 /\ callbacks[j][1].outcome = "200"

C10_PersistFailureNonFatal ==
  \A j \in Jobs :
    (Contains(invoked[j], "store_analysis_result") /\ pc[j] # "await_store")
      => /\ Truthy(payload[j].policy_id)
         /\ ExtractionSucceeded(j) /\ AnalysisSucceeded(j)
         /\ stored[j] # None
         /\ Entry(j).status = "completed"
         /\ Entry(j).result # None
         /\ Entry(j).result = result[j]

\* a job whose store write failed, completed all the same
C10_Witness ==
  \E j \in Jobs :
    /\ Returned(j) /\ stored[j] = Some(FALSE)
    /\ Entry(j).status = "completed" /\ Entry(j).result # None

Persisted(j) == Contains(invoked[j], "store_analysis_result")

\* C11, as claimed: a job with a policy id that has returned, completed or
\* failed, has called the result store; a job without a policy id never
\* calls it
C11_ResultStoreOnTerminal ==
  \A j \in Jobs :
    /\ (Returned(j) /\ Truthy(payload[j].policy_id)) => Persisted(j)
    /\ (Running(j) /\ ~Truthy(payload[j].policy_id)) => ~Persisted(j)

\* C12, as claimed: whenever the result store has been called or a callback
\* has been posted, the store entry already shows completed or failed, and
\* no callback is posted while the result store call is still running
C12_TerminalEventsOrdered ==
  \A j \in Jobs :
    /\ (Persisted(j) \/ Len(callbacks[j]) > 0)
         => (HasEntry(j) /\ Terminal(Entry(j).status))
    /\ pc[j] = "await_store" => Len(callbacks[j]) = 0

\* C13: a job has posted a callback exactly when its payload has a
\* callback_url and its store entry is completed or failed; the payload
\* posted carries the status of the entry, with the result when completed
\* and with the error message when failed
C13_CallbackIffTargetAndTerminal ==
  \A j \in Jobs :
    /\ Len(callbacks[j]) > 0
         <=> /\ Truthy(payload[j].callback_url)
             /\ HasEntry(j) /\ Terminal(Entry(j).status)
    /\ \A i \in 1..Len(callbacks[j]) :
         LET cb == callbacks[j][i]
         IN /\ cb.url = payload[j].callback_url
            /\ cb.status = Entry(j).status
            /\ cb.status = "completed"
                 => cb.body = Entry(j).result /\ cb.error_message = None
            /\ cb.status = "failed"
                 => cb.error_message = Entry(j).error /\ cb.body = None

\* a job failed by the extractor whose failure payload was posted
C13_Witness ==
  \E j \in Jobs :
    /\ Returned(j) /\ ExtractionFailed(j)
    /\ Len(callbacks[j]) = 1
    /\ callbacks[j][1].status = "failed"
    /\ callbacks[j][1].error_message = Entry(j).error

\* C14: a job posts at most one callback over its whole run, whatever the
\* endpoint answers; so no delivery is repeated and no job posts both a
\* success payload and a failure payload
C14_AtMostOnePost ==
  \A j \in Jobs : Len(callbacks[j]) <= 1

\* a failed job whose only callback was answered 500, the job over
C14_Witness ==
  \E j \in Jobs :
    /\ Returned(j) /\ Entry(j).status = "failed"
    /\ Len(callbacks[j]) = 1 /\ callbacks[j][1].outcome = "500"

Answered(cb) == cb.outcome # "pending"

\* C15, as claimed: a delivery that is over has returned a status to its
\* caller, success exactly when the response code was 200
C15_ReturnsDeliveryStatus ==
  \A j \in Jobs : \A i \in 1..Len(callbacks[j]) :
    Answered(callbacks[j][i])
      => callbacks[j][i].returned = Some(callbacks[j][i].outcome = "200")

\* C15, amended: a delivery that is over has returned nothing (None) to its
\* caller whatever the outcome; the outcome shows in the log only, info
\* exactly when the response code was 200, warning for another response
\* code and error for a timeout or I/O fault
C15_LogsDeliveryStatus ==
  \A j \in Jobs : \A i \in 1..Len(callbacks[j]) :
    LET cb == callbacks[j][i]
    IN Answered(cb)
         => /\ cb.returned = None
            /\ cb.logged = Some("info") <=> cb.outcome = "200"
            /\ cb.logged = Some("warning") <=> cb.outcome = "500"
            /\ cb.logged = Some("error") <=> cb.outcome = "timeout"

\* a delivery answered 500: logged as a warning, nothing returned
C15_Witness ==
  \E j \in Jobs :
    /\ Len(callbacks[j]) = 1
    /\ callbacks[j][1].outcome = "500"
    /\ callbacks[j][1].logged = Some("warning")
    /\ callbacks[j][1].returned = None

\* C16: the step in which a callback delivery ends without a 200 answer
\* leaves the job's store entry as it was (status, error, result,
\* completed_at and the rest)
C16_FailedDeliveryKeepsEntry ==
  [][\A j \in Jobs :
       (/\ pc[j] \in {"await_callback", "await_failure_callback"}
        /\ Answered(callbacks'[j][Len(callbacks[j])])
        /\ callbacks'[j][Len(callbacks[j])].outcome # "200")
         => /\ AnalysisId(j) \in DOMAIN analysis_status_store'
            /\ analysis_status_store'[AnalysisId(j)] = Entry(j)]_vars

\* a completed job whose callback was answered 500: still completed, with
\* its result
C16_Witness ==
  \E j \in Jobs :
    /\ Returned(j) /\ Entry(j).status = "completed" /\ Entry(j).result # None
    /\ Len(callbacks[j]) = 1 /\ callbacks[j][1].outcome = "500"

\* the value the three attempts would give, taken one by one
Direct == json_loads(text)
Fenced ==
  LET m == FenceMatch(text)
  IN IF m.found THEN json_loads(m.group)
     ELSE [ok |-> FALSE, raises |-> "", value |-> PyNone]
Braced ==
  LET m == BraceMatch(text)
  IN IF m.found THEN json_loads(m.group)
     ELSE [ok |-> FALSE, raises |-> "", value |-> PyNone]

\* C17, as claimed: whatever the text, the call of the parser returns (a
\* value or None) and raises nothing, and an attempt that fails to decode
\* does not keep a later attempt that decodes from giving the result
C17_ParserNeverRaises ==
  parsed # None
    => /\ ~Val(parsed).raised
       /\ (~Direct.ok /\ Fenced.ok) => Val(parsed) = Return(Fenced.value)
       /\ (~Direct.ok /\ ~Fenced.ok /\ Braced.ok) => Val(parsed) = Return(Braced.value)

\* {"a": 1} bare, in a fenced block tagged json, and between prose
SameObjectTexts ==
  { <<"{", "a:1", "}">>,
    <<"fence", "json", "ws", "{", "a:1", "}", "ws", "fence">>,
    <<"prose", "{", "a:1", "}", "prose">> }

\* C18, as claimed: the result is the value of the first attempt that
\* decodes, in the order whole text, first fenced block, first opening brace
\* to last closing brace; so the three texts of SameObjectTexts give the
\* same object, and where the fenced block and the brace span both decode,
\* to different values, the fenced block's value is the result
C18_StrictPrecedence ==
  parsed # None
    => /\ Direct.ok => Val(parsed) = Return(Direct.value)
       /\ (~Direct.ok /\ Fenced.ok) => Val(parsed) = Return(Fenced.value)
       /\ (~Direct.ok /\ ~Fenced.ok /\ Braced.ok) => Val(parsed) = Return(Braced.value)
       /\ text \in SameObjectTexts => Val(parsed) = Return(JObject({"a:1"}))

\* the analyzer succeeded with the raw text wrapped under "raw_analysis"
ParseDegraded(j) ==
  /\ AnalysisSucceeded(j)
  /\ Val(Val(analysis_result[j]).analysis_data).keys = {"raw_analysis"}

\* C19: an analysis that succeeded with the raw text wrapped is the
\* analysis of a text the parser gave no result for; the job goes on to the
\* renderer and is never failed, and once it has returned it is completed
\* with that wrapped raw text as analysis_data and with overall_score and
\* recommendation None
C19_ParseDegradedCompletes ==
  \A j \in Jobs :
    ParseDegraded(j)
      => LET data == Val(Val(analysis_result[j]).analysis_data)
         IN /\ \E t \in PipelineTexts :
                 /\ data = RawAnalysis(t)
                 /\ ~_parse_analysis_json(t).raised
                 /\ ~PyTruthy(_parse_analysis_json(t).value)
            /\ Contains(invoked[j], "generate_report")
            /\ Entry(j).status \in {"generating", "completed"}
            /\ Returned(j)
                 => /\ Entry(j).status = "completed"
                    /\ Entry(j).result # None
                    /\ Val(Entry(j).result).analysis_data = data
                    /\ Val(Entry(j).result).overall_score = None
                    /\ Val(Entry(j).result).recommendation = None

\* a job completed on prose the parser could not decode
C19_Witness ==
  \E j \in Jobs :
    /\ Returned(j) /\ ParseDegraded(j)
    /\ Entry(j).status = "completed"
    /\ Val(Entry(j).result).analysis_data = RawAnalysis(<<"prose">>)
    /\ Val(Entry(j).result).overall_score = None

\* C20, as claimed: when a task starts under an analysis id that already
\* has an entry, the entry is left as it was
C20_CreateKeepsExisting ==
  [][\A j \in Jobs :
       (HasEntry(j) /\ pc[j] = "queued" /\ pc'[j] # "queued")
         => /\ AnalysisId(j) \in DOMAIN analysis_status_store'
            /\ analysis_status_store'[AnalysisId(j)] = Entry(j)]_vars

\* C21, as claimed: an update issued for an id the store does not hold
\* leaves the store as it was (no entry made, no other entry changed), logs
\* a warning and raises nothing into the job
C21_AbsentUpdateIsNoOp ==
  [][(issued = None /\ issued' # None
        /\ Val(issued').id \notin DOMAIN analysis_status_store)
       => /\ analysis_status_store' = analysis_status_store
          /\ ~Val(issued').raised
          /\ Val(issued').logged = Some("warning")]_vars

\* the status a job's own last write left, by where its task stands
LastWritten(j) ==
  CASE pc[j] = "started" -> {"started"}
    [] pc[j] = "await_extract" -> {"extracting"}
    [] pc[j] = "await_analyze" -> {"analyzing"}
    [] pc[j] \in {"await_render", "await_store"} -> {"generating"}
    [] pc[j] = "await_callback" -> {"completed"}
    [] pc[j] = "await_failure_callback" -> {"failed"}
    [] OTHER -> {"completed", "failed"}

\* C22: with jobs under distinct ids interleaved in every way, a job's entry
\* appears or changes only in a step of that job, and after every step each
\* running job's entry is there, carries that job's id and start, and shows
\* the status (and, completed, the result) that job wrote last
C22_JobsDoNotInterfere ==
  [][\A j \in ConcJobs :
       /\ (\/ HasEntry(j) # HasEntry(j)'
           \/ (HasEntry(j) /\ HasEntry(j)' /\ Entry(j)' # Entry(j)))
            => pc'[j] # pc[j]
       /\ Running(j)'
            => /\ HasEntry(j)'
               /\ Entry(j)'.analysis_id = AnalysisId(j)
               /\ Entry(j)'.status \in LastWritten(j)'
               /\ Entry(j)'.status = "completed" => Entry(j)'.result = result'[j]
               /\ Entry(j)'.status = "failed" => Entry(j)'.error # None]_vars

\* two jobs started at different times and both over, one completed with
\* its own result and one failed
C22_Witness ==
  \E i, j \in ConcJobs :
    /\ i # j /\ Returned(i) /\ Returned(j)
    /\ Entry(i).status = "completed" /\ Entry(i).result = result[i]
    /\ Entry(j).status = "failed"
    /\ Entry(i).started_at # Entry(j).started_at

\* C23: a job whose task has started (its entry is in the store, in any
\* of started, extracting, analyzing, generating) gets to completed or
\* failed, whatever its stages return
C23_StartedJobTerminates ==
  \A j \in Jobs :
    (HasEntry(j) /\ ~Terminal(Entry(j).status))
      ~> (HasEntry(j) /\ Terminal(Entry(j).status))

\* a job that went through every stage and the store call, its callback
\* timed out, and is completed
C23_Witness ==
  \E j \in Jobs :
    /\ Returned(j) /\ Entry(j).status = "completed"
    /\ stored[j] = Some(TRUE)
    /\ Len(callbacks[j]) = 1 /\ callbacks[j][1].outcome = "timeout"
    /\ invoked[j] = <<"extract_from_url", "analyze_policy", "generate_report",
                      "store_analysis_result">>

\* C24: the submission handler answers with the job id in the step that only
\* queues the background task: when its response is produced no stage of
\* that job has run (no collaborator invoked, no status written by the
\* pipeline, no result, no callback), whatever the job does afterwards.
C24_SubmissionReturnsBeforeStages ==
  [][\A j \in Jobs :
        (pc[j] = "idle" /\ pc'[j] # "idle") =>
            /\ pc'[j] = "queued"
            /\ payload'[j] \in Payloads
            /\ invoked'[j] = <<>>
            /\ callbacks'[j] = <<>>
            /\ result'[j] = None /\ stored'[j] = None
            /\ analysis_status_store' = analysis_status_store]_vars

\* the handler has answered, the task is queued and has not taken a step
C24_Witness ==
  \E j \in Jobs :
     /\ pc[j] = "queued"
     /\ payload[j] \in Payloads
     /\ ~HasEntry(j)
     /\ invoked[j] = <<>>

\* a request with a local source reference only and no callback target, all
\* of whose collaborator calls answered with success
LocalNoCallback(j) ==
  /\ Truthy(payload[j]._local_file_path) /\ ~Truthy(payload[j].file_url)
  /\ ~Truthy(payload[j].callback_url)
CollaboratorsSucceeded(j) ==
  /\ ExtractionSucceeded(j) /\ AnalysisSucceeded(j)
  /\ report_result[j] # None /\ Val(report_result[j]).success

StageOrders ==
  { <<e, "analyze_policy", "generate_report", "store_analysis_result">> :
      e \in {"extract_from_file", "extract_from_url"} }
IsPrefix(s, t) == Len(s) <= Len(t) /\ \A i \in 1..Len(s) : s[i] = t[i]

\* C26: the stages of a job are strictly sequential: extractor, analyzer,
\* renderer and result store are called at most once each and in that
\* order, the callback at most once and after them; a call is issued only
\* when the previous one has returned; and while the extractor, analyzer or
\* renderer call is in flight (from the moment it is issued) the entry's
\* status is extracting, analyzing or generating
C26_StagesSequential ==
  \A j \in Jobs :
    /\ \E o \in StageOrders : IsPrefix(invoked[j], o)
    /\ Len(callbacks[j]) <= 1
    /\ Len(invoked[j]) >= 2 => extraction[j] # None
    /\ Len(invoked[j]) >= 3 => analysis_result[j] # None
    /\ Len(invoked[j]) >= 4 => report_result[j] # None
    /\ callbacks[j] # <<>> =>
         /\ pc[j] \in {"await_callback", "await_failure_callback", "done"}
         /\ Contains(invoked[j], "store_analysis_result") => stored[j] # None
    /\ pc[j] = "await_extract" =>
         /\ Len(invoked[j]) = 1 /\ extraction[j] = None
         /\ Entry(j).status = "extracting"
    /\ pc[j] = "await_analyze" =>
         /\ Len(invoked[j]) = 2 /\ analysis_result[j] = None
         /\ Entry(j).status = "analyzing"
    /\ pc[j] = "await_render" =>
         /\ Len(invoked[j]) = 3 /\ report_result[j] = None
         /\ Entry(j).status = "generating"
    /\ pc[j] = "await_store" =>
         /\ Len(invoked[j]) = 4 /\ stored[j] = None /\ callbacks[j] = <<>>

\* a job that went through all five collaborators, one call each
C26_Witness ==
  \E j \in Jobs :
    /\ Returned(j)
    /\ invoked[j] \in StageOrders
    /\ stored[j] # None
    /\ Len(callbacks[j]) = 1 /\ callbacks[j][1].status = "completed"
    /\ callbacks[j][1].outcome = "200"

\* the Analyze stage on the text at hand, the API key being configured
AnalyzeOfText == analyze_policy([api_key |-> "sk-key", response |-> ApiText(text)])

\* C27, as claimed: what the parser returns, unless it is "no result", is a
\* structured object; a text that decodes to an array, a number or null is
\* not returned as the parsed result and does not make the Analyze stage
\* fail
C27_ParsedIsObject ==
  parsed # None =>
    /\ (~Val(parsed).raised /\ Val(parsed).value # PyNone)
         => Val(parsed).value.kind = "object"
    /\ (Direct.ok /\ Direct.value.kind # "object") => AnalyzeOfText.success

\* C28, as claimed: from the moment the submission handler has returned a
\* job's id the store has an entry under that id, in started or a later
\* status, the background task having taken a step or not
C28_EntryFromSubmission ==
  \A j \in Jobs :
    pc[j] # "idle" =>
      /\ HasEntry(j)
      /\ Entry(j).status \in
           {"started", "extracting", "analyzing", "generating", "completed", "failed"}

\* C29, as claimed: every terminal callback a job has sent, with the
\* success payload or with the failure payload, carries as its completion
\* timestamp the completed_at recorded in the job's entry
C29_CallbackTimestampIsEntrys ==
  \A j \in Jobs :
    \A i \in DOMAIN callbacks[j] :
      /\ HasEntry(j)
      /\ Entry(j).completed_at = Some(callbacks[j][i].completed_at)

====
